---- MODULE Spec2Model ----
(***************************************************************************)
(* Cube Rush: the session controller (App), the timing state machine       *)
(* (useTimer) and the impact motion filter (useSensor), as one state       *)
(* machine.  One action per event handler / timer callback; every handler  *)
(* runs to completion (single event loop) and the component re-renders     *)
(* between two handlers, so a handler reads the current React state.       *)
(*                                                                         *)
(* Time is one clock `now` in milliseconds; it stands for Date.now() and   *)
(* performance.now() alike (only differences of readings are used).        *)
(* Lengths are in 1/1000 m/s^2 so that 9.8 and the thresholds are exact.   *)
(***************************************************************************)
EXTENDS Integers, Sequences, FiniteSets, TLC

\* ------------------------------------------------------------- bounds
MaxTime == 1800          \* the clock stops advancing here (manual session)
MaxSensorTime == 2300    \* the same, for the sensor session
MaxFilterTime == 1650    \* the same, for the motion filter
MaxPickupTime == 1600    \* the same, for the pickup/putdown filter
MaxLength == 3           \* longest scramble asked of generateScramble
MaxTimes == 5            \* longest list of durations given to the statistics
MaxN == 5                \* largest n given to calcAoN
MaxStored == 2           \* longest record list found in storage at load
MaxRecords == 2          \* cap on the length of the record list
MaxTimers == 2           \* cap on simultaneously pending hold-delay timers
MaxRaf == 2              \* cap on simultaneously pending frame callback chains
InitialTime == 1000      \* reading of the clock when the page is mounted

\* ------------------------------------------------- program constants
HoldDelayMs == 400
CooldownMs == 600
ImpactThreshold == 1200
Gravity == 9800
NoTimer == 0
MotionThreshold == 1500
StillDurationMs == 300

\* the amounts the clock advances by: coarse for the session, fine for the
\* motion filter
SessionSteps == {400}
SensorSteps == {650}
FilterSteps == {50, 550}
PickupSteps == {100, 200}

Phases == {"idle", "ready", "running", "stopped"}
Modes == {"stackmat", "sensor"}
TriState == {"null", "true", "false"}
\* the strings generateScramble() returns, by name
Scrambles == {"s1", "s2"}

\* strings found under STORAGE_KEY that saveRecords did not write
ForeignTexts == {"", "{bad", "null", "42", "{}", "\"abc\""}

\* records a stored list is made of
StoredRecords ==
    {[id |-> i, time |-> t, scramble |-> "s1", date |-> i] :
        i \in {1000, 1400}, t \in {0, 400}}

StoredLists ==
    UNION {[1..k -> StoredRecords] : k \in 0..MaxStored}

\* durations, in milliseconds, the statistics are computed from
TimeValues == {10, 9000, 11000, 12000, 13000, 15000}

\* a motion sample: acc = FALSE is a missing accelerationIncludingGravity,
\* an axis is <<v>> (v in m/s^2) or <<>> for null
AxisXY == {<<>>, <<0>>}
AxisZ == {<<>>, <<0>>, <<10>>, <<11>>, <<12>>}
Samples ==
    {[acc |-> FALSE, x |-> <<>>, y |-> <<>>, z |-> <<>>]}
        \cup [acc : {TRUE}, x : AxisXY, y : AxisXY, z : AxisZ]

\* the samples of the impact filter: those above and two knocks off the z
\* axis, whose deviations (2.569 and 1.989 m/s^2) are not multiples of 0.1
FilterSamples ==
    Samples \cup {[acc |-> TRUE, x |-> <<3>>, y |-> <<0>>, z |-> <<12>>],
                  [acc |-> TRUE, x |-> <<3>>, y |-> <<3>>, z |-> <<11>>]}

\* the samples of the sensor session: no data, at rest, a knock
SensorSamples ==
    {[acc |-> FALSE, x |-> <<>>, y |-> <<>>, z |-> <<>>],
     [acc |-> TRUE, x |-> <<0>>, y |-> <<0>>, z |-> <<10>>],
     [acc |-> TRUE, x |-> <<0>>, y |-> <<0>>, z |-> <<12>>]}

VARIABLES
    now,                 \* the clock
    phase, time, startTimeRef, rafRef, rafPending,          \* useTimer
    mode, records, storage, scramble,                       \* App state
    showPermissionBanner, showHelp,
    readyTimerRef, timers, sensorLockedRef,                 \* App refs, timers
    sensorAvailable, permissionGranted,                     \* useSensor
    lastImpactStrength, lastImpactTimeRef,
    hasRequestApi, requests,                                \* platform
    enabledRef, isMovingRef, lastMotionRef,                 \* useSensor,
    stillTimerRef, stillTimerDue, sensorEvent,              \* pickup/putdown
    length, loopIndex, moves, lastFace, secondLastFace,     \* generateScramble
    generated,
    times, statistic,                                       \* timeFormat
    loaded,                                                 \* loadRecords
    mounted, listeners,                                     \* useSensor effect
    hist                 \* history of the run, read by the properties only

timerVars == <<phase, time, startTimeRef, rafRef, rafPending>>
appVars == <<mode, records, storage, scramble, showPermissionBanner, showHelp>>
holdVars == <<readyTimerRef, timers>>
filterVars == <<lastImpactStrength, lastImpactTimeRef>>
platformVars == <<sensorAvailable, permissionGranted, hasRequestApi, requests>>
sensorVars == <<filterVars, platformVars>>
\* the pickup/putdown filter: stillTimerRef tells whether the ref holds a
\* handle, stillTimerDue is the due time of the pending stillness timer or
\* NoTimer; sensorEvent.emitted is the event the last step of the filter
\* emitted, sensorEvent.last the event it emitted last ("none", "pickup",
\* "putdown") and sensorEvent.count the number of events it emitted, both
\* since resetSensor was last called
pickupVars ==
    <<enabledRef, isMovingRef, lastMotionRef, stillTimerRef, stillTimerDue,
      sensorEvent>>
\* one call of generateScramble(length): its locals, loopIndex for the loop
\* counter i, and generated = [returned, text] for the value it returns, a
\* string written as the sequence of its characters
scrambleVars ==
    <<length, loopIndex, moves, lastFace, secondLastFace, generated>>
\* the list of durations the statistics are computed from and the last value
\* computed, statistic = [fn, n, value]
statVars == <<times, statistic>>
\* what a call of loadRecords() returned, and the item it read
loadVars == <<loaded>>
\* whether the component is mounted, and the number of devicemotion
\* listeners the effect of useSensor has registered on the window
lifecycleVars == <<mounted, listeners>>
\* the parts of the repository the handlers of the session do not touch
auxVars == <<pickupVars, scrambleVars, statVars, loadVars, lifecycleVars>>
vars ==
    <<now, timerVars, appVars, holdVars, sensorLockedRef, sensorVars, hist,
      auxVars>>

\* ------------------------------------------------------ pure helpers
\* JavaScript values a statistic or loadRecords() can return: null, a
\* number written as the fraction sum / count, undefined, and a parsed JSON
\* value [type, items] (items are the elements of an array)
Null == [null |-> TRUE, sum |-> 0, count |-> 1]
Number(s, c) == [null |-> FALSE, sum |-> s, count |-> c]
Undefined == [type |-> "undefined", items |-> <<>>]
Array(list) == [type |-> "array", items |-> list]

\* what localStorage.getItem(STORAGE_KEY) meets: no item, a storage that
\* throws, or a string; the string saveRecords writes for a list is
\* "[records]" with the list beside it, the others are spelled out
MissingItem == [kind |-> "missing", text |-> "", list |-> <<>>]
UnavailableItem == [kind |-> "unavailable", text |-> "", list |-> <<>>]
TextItem(t) == [kind |-> "string", text |-> t, list |-> <<>>]
\* JSON.stringify(records)
Stringify(list) == [kind |-> "string", text |-> "[records]", list |-> list]

\* every content of the storage key a page load is tried on
RawItems ==
    {MissingItem, UnavailableItem}
        \cup {TextItem(t) : t \in ForeignTexts}
        \cup {Stringify(l) : l \in StoredLists}

Abs(n) == IF n < 0 THEN -n ELSE n

RECURSIVE SqrtSearch(_, _, _)
SqrtSearch(n, lo, hi) ==
    IF lo >= hi THEN lo
    ELSE LET mid == (lo + hi + 1) \div 2
         IN  IF mid * mid <= n THEN SqrtSearch(n, mid, hi)
             ELSE SqrtSearch(n, lo, mid - 1)

\* floor of the square root
ISqrt(n) == SqrtSearch(n, 0, 46340)

ValidSampleAccOnly(s) == s.acc

\* a sample the filter can use: the object and its three axes are present
ValidSample(s) == s.acc /\ s.x # <<>> /\ s.y # <<>> /\ s.z # <<>>

\* a ?? 0
Coalesce(a) == IF a = <<>> THEN 0 ELSE a[1]

\* sqrt(x^2 + y^2 + z^2), in 1/1000 m/s^2
Magnitude(s) ==
    ISqrt((Coalesce(s.x) * Coalesce(s.x) + Coalesce(s.y) * Coalesce(s.y)
           + Coalesce(s.z) * Coalesce(s.z)) * 1000000)

\* |magnitude - 9.8|, in 1/1000 m/s^2
Deviation(s) == Abs(Magnitude(s) - Gravity)

StrengthTruncated(s) == Deviation(s) \div 100

\* parseFloat(deviation.toFixed(1)), in 1/10 m/s^2
Strength(s) == (Deviation(s) + 50) \div 100

\* deviation > impactThreshold
AboveThreshold(s) == Deviation(s) > ImpactThreshold

CooldownElapsedGe(t, lastImpact) == t - lastImpact >= CooldownMs

CooldownElapsedAlways(t, lastImpact) == TRUE

\* now - lastImpactTimeRef.current > cooldownMs
CooldownElapsed(t, lastImpact) == t - lastImpact > CooldownMs

\* ---------------------------------------------------------- handles
\* Timer handles are kept up to renaming.  The pending hold-delay timers are
\* the sequence `timers` of their due times, in the order they were armed
\* (all have the same delay, so this is the order they fire in), and
\* readyTimerRef is the position of the timer whose handle the ref holds, or
\* NoTimer when the ref is null or holds the handle of a timer that has fired
\* (clearTimeout of such a handle does nothing).
\* Frame callbacks carry no data: rafPending counts the pending ones, and
\* rafRef tells whether the handle in the ref names a pending one.

RemoveAt(seq, i) ==
    [j \in 1..(Len(seq) - 1) |-> IF j < i THEN seq[j] ELSE seq[j + 1]]

\* ---------------------------------------------------------- history
\* hist.last          what the handler that ran last did, when it is one of
\*                    the outcomes in Marked, else "other"
\* hist.startScramble the scramble on display when the clock was last started
\* hist.cycle         progress of the manual round that began with a press in
\*                    idle:
\*                    1 pressed, 2 held for the hold delay (the timer of the
\*                    press, the one armed last, has fired),
\*                    3 released, 4 tapped later than the release, 5 next
\*                    round; 0 when any other user or sensor event intervened
\* hist.sensorStop    "held" from the stop of the clock by a motion event until
\*                    the user ends that round: "none" after the next-round
\*                    action (also of "delete this solve"), "reset" after
\*                    another way out (cancel, clear-all, mode toggle)
\* hist.base          length of the record list when that round began
\* hist.at            reading of the clock at the release of that round
\* hist.startedAt     reading of the clock when the clock was last started
\* hist.headIsSolve   the phase is stopped and the head of the record list is
\*                    the record the stop that entered it created

\* handlers that do not interrupt a manual round: time passing, frames
Passive == {"advance", "tick"}

\* the outcomes the properties look for
Marked ==
    {"press:stop", "press:ignored", "key:help", "key:stop",
     "motion:start", "motion:stop", "motion:none", "motion:cooldown",
     "motion:invalid",
     "resolve:denied", "resolve:throw"}

CycleStep(l) ==
    IF l \in Passive THEN hist.cycle
    ELSE IF l = "press:arm" /\ phase = "idle" /\ mode = "stackmat" THEN 1
    ELSE IF l = "timer" /\ hist.cycle = 1
        THEN IF Len(timers) = 1 THEN 2 ELSE 1
    ELSE IF l \in {"release", "release:start"} /\ hist.cycle = 2 THEN 3
    ELSE IF l \in {"press:arm", "press:stop", "press:none"} /\ hist.cycle = 3
            /\ now > hist.at THEN 4
    ELSE IF l = "next" /\ hist.cycle = 4 THEN 5
    ELSE 0

SensorStopStep(l) ==
    IF l = "motion:stop" THEN "held"
    ELSE IF l \in {"next", "deletethis"} THEN "none"
    ELSE IF l \in {"cancel", "clear", "switch"} /\ hist.sensorStop = "held"
        THEN "reset"
    ELSE hist.sensorStop

\* a stop puts its record at the head of the list; the head stays that record
\* until a history row with its id is deleted or the stopped phase is left
SolveStep(l) ==
    IF l \in {"press:stop", "key:stop", "motion:stop"} THEN TRUE
    ELSE IF l \in {"delete:head", "timer", "next", "deletethis", "clear",
                   "switch"} THEN FALSE
    ELSE hist.headIsSolve

Observe(l) ==
    hist' = [last |-> IF l \in Marked THEN l ELSE "other",
             startScramble |->
                 IF l \in {"release:start", "key:start", "motion:start"}
                 THEN scramble ELSE hist.startScramble,
             sensorStop |-> SensorStopStep(l),
             cycle |-> CycleStep(l),
             base |-> IF CycleStep(l) = 1 THEN Len(records) ELSE hist.base,
             at |-> IF CycleStep(l) = 3 THEN now ELSE hist.at,
             startedAt |->
                 IF l \in {"release:start", "key:start", "motion:start"}
                 THEN now ELSE hist.startedAt,
             headIsSolve |-> SolveStep(l)]

\* ------------------------------------------------------ loadRecords
\* JSON.parse(raw): [threw, value]
JSONParse(raw) ==
    CASE raw.text = "[records]" -> [threw |-> FALSE, value |-> Array(raw.list)]
      [] raw.text = "null" ->
             [threw |-> FALSE, value |-> [type |-> "null", items |-> <<>>]]
      [] raw.text = "42" ->
             [threw |-> FALSE, value |-> [type |-> "number", items |-> <<>>]]
      [] raw.text = "{}" ->
             [threw |-> FALSE, value |-> [type |-> "object", items |-> <<>>]]
      [] raw.text = "\"abc\"" ->
             [threw |-> FALSE, value |-> [type |-> "string", items |-> <<>>]]
      [] OTHER -> [threw |-> TRUE, value |-> Undefined]

\* the value loadRecords() returns
loadRecords ==
    IF storage.kind = "unavailable" THEN Array(<<>>)
    ELSE IF storage.kind = "missing" \/ storage.text = "" THEN Array(<<>>)
    ELSE IF JSONParse(storage).threw THEN Array(<<>>)
    ELSE JSONParse(storage).value

\* ------------------------------------------------------------- Init
\* The page has rendered: the records are what loadRecords() returned.  A
\* storage that throws, or a stored value that is not an array, ends the first
\* render with an exception (localStorage.getItem outside try, records.filter)
\* and leaves no page to operate.
Init ==
    /\ now = InitialTime
    /\ phase = "idle" /\ time = 0 /\ startTimeRef = 0
    /\ rafRef = FALSE /\ rafPending = 0
    /\ mode \in Modes
    /\ storage \in RawItems
    /\ storage.kind # "unavailable"
    /\ loadRecords.type = "array"
    /\ records = loadRecords.items
    /\ scramble = "s1"
    /\ showHelp \in BOOLEAN
    /\ readyTimerRef = NoTimer /\ timers = <<>>
    /\ sensorLockedRef = FALSE
    /\ sensorAvailable \in BOOLEAN
    /\ permissionGranted = "null"
    /\ lastImpactStrength = 0 /\ lastImpactTimeRef = 0
    /\ hasRequestApi \in BOOLEAN
    /\ requests = FALSE
    /\ showPermissionBanner = (mode = "sensor" /\ sensorAvailable)
    /\ enabledRef = (mode = "sensor")
    /\ isMovingRef = FALSE /\ lastMotionRef = 0
    /\ stillTimerRef = FALSE /\ stillTimerDue = NoTimer
    /\ sensorEvent = [emitted |-> "none", last |-> "none", count |-> 0]
    /\ length = 0 /\ loopIndex = 0 /\ moves = <<>>
    /\ lastFace = "" /\ secondLastFace = ""
    /\ generated = [returned |-> FALSE, text |-> <<>>]
    /\ times = <<>>
    /\ statistic = [fn |-> "none", n |-> 0, value |-> Null]
    /\ mounted = TRUE
    /\ listeners = IF sensorAvailable THEN 1 ELSE 0
    /\ loaded = [called |-> FALSE, from |-> MissingItem, value |-> Undefined]
    /\ hist = [last |-> "other", startScramble |-> scramble,
               sensorStop |-> "none", cycle |-> 0,
               base |-> 0, at |-> 0, startedAt |-> 0, headIsSolve |-> FALSE]

\* ---------------------------------------------------------- useTimer
startKeepsReference ==
    /\ rafPending < MaxRaf
    /\ UNCHANGED startTimeRef
    /\ time' = 0
    /\ phase' = "running"
    /\ rafRef' = TRUE
    /\ rafPending' = rafPending + 1

\* start(): read the clock, show 0, enter running, schedule a frame callback
start ==
    /\ rafPending < MaxRaf
    /\ startTimeRef' = now
    /\ time' = 0
    /\ phase' = "running"
    /\ rafRef' = TRUE
    /\ rafPending' = rafPending + 1

staleTime == time


\* the value stop() returns
finalTime == now - startTimeRef

\* cancelAnimationFrame(rafRef.current)
cancelAnimationFrame ==
    /\ rafPending' = IF rafRef THEN rafPending - 1 ELSE rafPending
    /\ rafRef' = FALSE

\* stop(): cancel the frame callback the ref holds, show and return finalTime
stop ==
    /\ cancelAnimationFrame
    /\ time' = finalTime
    /\ phase' = "stopped"
    /\ UNCHANGED startTimeRef

\* reset(): cancel the frame callback the ref holds, show 0, enter idle
reset ==
    /\ cancelAnimationFrame
    /\ time' = 0
    /\ phase' = "idle"
    /\ UNCHANGED startTimeRef

setReady ==
    /\ phase' = "ready"
    /\ UNCHANGED <<time, startTimeRef, rafRef, rafPending>>

\* tick(): a pending frame callback runs, samples the clock and re-schedules
\* itself, leaving the new handle in the ref
Tick ==
    /\ rafPending > 0
    /\ time' = now - startTimeRef
    /\ rafRef' = TRUE
    /\ UNCHANGED <<now, auxVars, phase, startTimeRef, rafPending, appVars, holdVars,
                   sensorLockedRef, sensorVars>>
    /\ Observe("tick")

\* --------------------------------------------------------------- App
\* saveRecords(records): localStorage.setItem(STORAGE_KEY, JSON.stringify(...))
saveRecords(list) == storage' = Stringify(list)

recordSolveNone(solveTime) == UNCHANGED <<records, storage>>

recordSolveAtTail(solveTime) ==
    /\ Len(records) < MaxRecords
    /\ records' = Append(records, [id |-> now, time |-> solveTime,
                                   scramble |-> scramble, date |-> now])
    /\ saveRecords(records')

recordSolveUnsaved(solveTime) ==
    /\ Len(records) < MaxRecords
    /\ records' = <<[id |-> now, time |-> solveTime,
                     scramble |-> scramble, date |-> now]>> \o records
    /\ UNCHANGED storage

\* recordSolve: a new record at the head of the list, saved at once
recordSolve(solveTime) ==
    /\ Len(records) < MaxRecords
    /\ records' = <<[id |-> now, time |-> solveTime,
                     scramble |-> scramble, date |-> now]>> \o records
    /\ saveRecords(records')

\* clearTimeout(readyTimerRef.current); readyTimerRef.current = null
clearReadyTimer ==
    /\ timers' = IF readyTimerRef # NoTimer THEN RemoveAt(timers, readyTimerRef)
                 ELSE timers
    /\ readyTimerRef' = NoTimer

\* readyTimerRef.current = setTimeout(() => setReady(), 400)
armReadyTimer ==
    /\ Len(timers) < MaxTimers
    /\ timers' = Append(timers, now + HoldDelayMs)
    /\ readyTimerRef' = Len(timers) + 1

\* the callback of the hold-delay timer that is due first
ReadyTimerFire ==
    /\ timers # <<>>
    /\ now >= Head(timers)
    /\ timers' = Tail(timers)
    /\ readyTimerRef' = IF readyTimerRef = NoTimer THEN NoTimer
                        ELSE readyTimerRef - 1
    /\ setReady
    /\ UNCHANGED <<now, auxVars, appVars, sensorLockedRef, sensorVars>>
    /\ Observe("timer")

\* nextRound, the button of the stopped phase
NextRound ==
    /\ phase = "stopped"
    /\ \E g \in Scrambles : scramble' = g
    /\ reset
    /\ sensorLockedRef' = FALSE
    /\ UNCHANGED <<now, auxVars, mode, records, storage, showPermissionBanner, showHelp,
                   holdVars, sensorVars>>
    /\ Observe("next")

\* cancelSolve, the button of the running phase: stop(), reset(), setPhase('idle')
CancelSolve ==
    /\ phase = "running"
    /\ reset
    /\ sensorLockedRef' = FALSE
    /\ UNCHANGED <<now, auxVars, appVars, holdVars, sensorVars>>
    /\ Observe("cancel")

\* what handleImpact does: "start", "stop" or "none"
ImpactOutcome ==
    IF mode # "sensor" \/ sensorLockedRef THEN "none"
    ELSE IF phase = "idle" THEN "start"
    ELSE IF phase = "running" THEN "stop"
    ELSE "none"

handleImpactNoLock ==
    IF ImpactOutcome = "start" THEN
        start /\ UNCHANGED <<records, storage, sensorLockedRef>>
    ELSE IF ImpactOutcome = "stop" THEN
        stop /\ recordSolve(finalTime) /\ UNCHANGED sensorLockedRef
    ELSE
        UNCHANGED <<timerVars, records, storage, sensorLockedRef>>

\* handleImpact, the callback the filter calls
handleImpact ==
    IF ImpactOutcome = "start" THEN
        start /\ UNCHANGED <<records, storage, sensorLockedRef>>
    ELSE IF ImpactOutcome = "stop" THEN
        /\ stop
        /\ recordSolve(finalTime)
        /\ sensorLockedRef' = TRUE
    ELSE
        UNCHANGED <<timerVars, records, storage, sensorLockedRef>>

\* the touch zone is rendered
TouchZone == mode = "stackmat" /\ phase \in {"idle", "ready", "running"}

\* a press in manual mode (handleTouchStart, and handleKeyDown in stackmat
\* mode): stop and record when running, nothing when stopped, else arm the
\* hold-delay timer; the keyboard arms it in idle only
ManualPressArmsAlways(armable) ==
    /\ armReadyTimer
    /\ UNCHANGED <<timerVars, records, storage>>
    /\ Observe("press:arm")

ManualPress(armable) ==
    IF phase = "running" THEN
        /\ stop
        /\ recordSolve(finalTime)
        /\ UNCHANGED holdVars
        /\ Observe("press:stop")
    ELSE IF phase = "stopped" THEN
        /\ UNCHANGED <<timerVars, records, storage, holdVars>>
        /\ Observe("press:ignored")
    ELSE IF phase \in armable THEN
        /\ armReadyTimer
        /\ UNCHANGED <<timerVars, records, storage>>
        /\ Observe("press:arm")
    ELSE
        /\ UNCHANGED <<timerVars, records, storage, holdVars>>
        /\ Observe("press:none")

\* handleTouchStart, on pointerdown in the touch zone
HandleTouchStart ==
    /\ TouchZone
    /\ ManualPress({"idle", "ready"})
    /\ UNCHANGED <<now, auxVars, mode, scramble, showPermissionBanner, showHelp,
                   sensorLockedRef, sensorVars>>

\* a release (handleTouchEnd, handleKeyUp): cancel the hold-delay timer the
\* ref holds, and start the clock when ready
Release ==
    /\ clearReadyTimer
    /\ IF phase = "ready" THEN start /\ Observe("release:start")
       ELSE UNCHANGED timerVars /\ Observe("release")

\* handleTouchEnd, on pointerup in the touch zone
HandleTouchEnd ==
    /\ TouchZone
    /\ Release
    /\ UNCHANGED <<now, auxVars, appVars, sensorLockedRef, sensorVars>>

\* handleKeyDown, Space pressed (not an auto-repeat)
HandleKeyDown ==
    /\ IF showHelp THEN
           /\ UNCHANGED <<timerVars, records, storage, holdVars, sensorLockedRef>>
           /\ Observe("key:help")
       ELSE IF mode = "stackmat" THEN
           /\ ManualPress({"idle"})
           /\ UNCHANGED sensorLockedRef
       ELSE
           /\ handleImpact
           /\ UNCHANGED holdVars
           /\ Observe("key:" \o ImpactOutcome)
    /\ UNCHANGED <<now, auxVars, mode, scramble, showPermissionBanner, showHelp, sensorVars>>

\* handleKeyUp, Space released
HandleKeyUp ==
    /\ Release
    /\ UNCHANGED <<now, auxVars, appVars, sensorLockedRef, sensorVars>>

\* what the filter does with a sample: "disabled", "invalid", "below",
\* "cooldown", or "impact" when it accepts the sample and calls onImpact
FilterOutcome(s) ==
    IF mode # "sensor" THEN "disabled"
    ELSE IF ~ValidSample(s) THEN "invalid"
    ELSE IF ~AboveThreshold(s) THEN "below"
    ELSE IF ~CooldownElapsed(now, lastImpactTimeRef) THEN "cooldown"
    ELSE "impact"

\* the filter's devicemotion listener, called with one sample
HandleMotion(s) ==
    /\ sensorAvailable
    /\ listeners > 0
    /\ LET outcome == FilterOutcome(s)
       IN  IF outcome = "impact" THEN
               /\ lastImpactTimeRef' = now
               /\ lastImpactStrength' = Strength(s)
               /\ handleImpact
               /\ Observe("motion:" \o ImpactOutcome)
           ELSE
               /\ UNCHANGED <<timerVars, records, storage, sensorLockedRef,
                              filterVars>>
               /\ Observe("motion:" \o outcome)
    /\ UNCHANGED <<now, auxVars, mode, scramble, showPermissionBanner, showHelp, holdVars,
                   platformVars>>

\* ------------------------------------- useSensor, pickup/putdown policy
\* deviation > motionThreshold
AboveMotionThreshold(s) == Deviation(s) > MotionThreshold

\* the session and the impact filter, which this filter does not touch
sessionVars ==
    <<timerVars, appVars, holdVars, sensorLockedRef, sensorVars, hist>>

\* what each of the independent parts leaves alone
outsidePickup ==
    <<sessionVars, scrambleVars, statVars, loadVars, lifecycleVars>>
outsideScramble ==
    <<now, sessionVars, pickupVars, statVars, loadVars, lifecycleVars>>
outsideStats ==
    <<now, sessionVars, pickupVars, scrambleVars, loadVars, lifecycleVars>>
outsideLoad ==
    <<now, sessionVars, pickupVars, scrambleVars, statVars, lifecycleVars>>
outsideLifecycle ==
    <<now, sessionVars, pickupVars, scrambleVars, statVars, loadVars>>

\* the cleanup of the effect of useSensor, at unmount:
\* removeEventListener('devicemotion', handleMotion)
EffectCleanup ==
    /\ mounted
    /\ mounted' = FALSE
    /\ listeners' = IF sensorAvailable THEN listeners - 1 ELSE listeners
    /\ UNCHANGED outsideLifecycle

\* the effect of useSensor runs again, at a new mount:
\* addEventListener('devicemotion', handleMotion) when the API is there
EffectSetup ==
    /\ ~mounted
    /\ mounted' = TRUE
    /\ listeners' = IF sensorAvailable THEN listeners + 1 ELSE listeners
    /\ UNCHANGED outsideLifecycle

\* the event a step of the filter emits
Emit(e) ==
    sensorEvent' = [emitted |-> e,
                    last |-> IF e = "none" THEN sensorEvent.last ELSE e,
                    count |-> IF e = "none" THEN sensorEvent.count
                                            ELSE sensorEvent.count + 1]

HandleMotionPickupNoCancel(s) ==
    /\ IF ~enabledRef \/ ~ValidSample(s) THEN
           /\ UNCHANGED <<isMovingRef, lastMotionRef, stillTimerRef, stillTimerDue>>
           /\ Emit("none")
       ELSE IF AboveMotionThreshold(s) THEN
           /\ lastMotionRef' = now
           /\ isMovingRef' = TRUE
           /\ UNCHANGED <<stillTimerRef, stillTimerDue>>
           /\ Emit(IF isMovingRef THEN "none" ELSE "pickup")
       ELSE IF isMovingRef /\ ~stillTimerRef THEN
           /\ stillTimerRef' = TRUE
           /\ stillTimerDue' = now + StillDurationMs
           /\ UNCHANGED <<isMovingRef, lastMotionRef>>
           /\ Emit("none")
       ELSE
           /\ UNCHANGED <<isMovingRef, lastMotionRef, stillTimerRef, stillTimerDue>>
           /\ Emit("none")
    /\ UNCHANGED <<now, enabledRef, outsidePickup>>

HandleMotionPickupEveryTime(s) ==
    /\ IF ~enabledRef \/ ~ValidSample(s) THEN
           /\ UNCHANGED <<isMovingRef, lastMotionRef, stillTimerRef, stillTimerDue>>
           /\ Emit("none")
       ELSE IF AboveMotionThreshold(s) THEN
           /\ lastMotionRef' = now
           /\ stillTimerRef' = FALSE
           /\ stillTimerDue' = NoTimer
           /\ isMovingRef' = TRUE
           /\ Emit("pickup")
       ELSE IF isMovingRef /\ ~stillTimerRef THEN
           /\ stillTimerRef' = TRUE
           /\ stillTimerDue' = now + StillDurationMs
           /\ UNCHANGED <<isMovingRef, lastMotionRef>>
           /\ Emit("none")
       ELSE
           /\ UNCHANGED <<isMovingRef, lastMotionRef, stillTimerRef, stillTimerDue>>
           /\ Emit("none")
    /\ UNCHANGED <<now, enabledRef, outsidePickup>>

\* the filter's devicemotion listener (pickup/putdown), called with one sample
HandleMotionPickup(s) ==
    /\ IF ~enabledRef \/ ~ValidSample(s) THEN
           /\ UNCHANGED <<isMovingRef, lastMotionRef, stillTimerRef, stillTimerDue>>
           /\ Emit("none")
       ELSE IF AboveMotionThreshold(s) THEN
           /\ lastMotionRef' = now
           /\ stillTimerRef' = FALSE
           /\ stillTimerDue' = NoTimer
           /\ isMovingRef' = TRUE
           /\ Emit(IF isMovingRef THEN "none" ELSE "pickup")
       ELSE IF isMovingRef /\ ~stillTimerRef THEN
           /\ stillTimerRef' = TRUE
           /\ stillTimerDue' = now + StillDurationMs
           /\ UNCHANGED <<isMovingRef, lastMotionRef>>
           /\ Emit("none")
       ELSE
           /\ UNCHANGED <<isMovingRef, lastMotionRef, stillTimerRef, stillTimerDue>>
           /\ Emit("none")
    /\ UNCHANGED <<now, enabledRef, outsidePickup>>

\* the callback of the stillness timer
StillTimerFire ==
    /\ stillTimerDue # NoTimer
    /\ now >= stillTimerDue
    /\ stillTimerDue' = NoTimer
    /\ IF now - lastMotionRef >= StillDurationMs THEN
           /\ isMovingRef' = FALSE
           /\ stillTimerRef' = FALSE
           /\ Emit("putdown")
       ELSE
           /\ UNCHANGED <<isMovingRef, stillTimerRef>>
           /\ Emit("none")
    /\ UNCHANGED <<now, enabledRef, lastMotionRef, outsidePickup>>

\* resetSensor()
ResetSensor ==
    /\ isMovingRef' = FALSE
    /\ stillTimerRef' = FALSE
    /\ stillTimerDue' = NoTimer
    /\ sensorEvent' = [emitted |-> "none", last |-> "none", count |-> 0]
    /\ UNCHANGED <<now, enabledRef, lastMotionRef, outsidePickup>>

\* a render with a new value of the enabled argument
SetEnabled(e) ==
    /\ enabledRef' = e
    /\ UNCHANGED <<now, isMovingRef, lastMotionRef, stillTimerRef, stillTimerDue,
                   sensorEvent, outsidePickup>>

\* ------------------------------------------------ generateScramble
FACES == <<"U", "D", "L", "R", "F", "B">>
MODIFIERS == <<"", "'", "2">>

\* OPPOSITE[face]; the lookup of a key the table lacks gives undefined
OPPOSITE(face) ==
    CASE face = "U" -> "D"
      [] face = "D" -> "U"
      [] face = "L" -> "R"
      [] face = "R" -> "L"
      [] face = "F" -> "B"
      [] face = "B" -> "F"
      [] OTHER -> "undefined"

\* the while condition of the do-while loop: the drawn face is drawn again
RedrawNever(face) == FALSE

Redraw(face) ==
    \/ face = lastFace
    \/ (face = OPPOSITE(lastFace) /\ secondLastFace = lastFace)

\* face + modifier, as a sequence of characters
Token(face, modifier) ==
    IF modifier = "" THEN <<face>> ELSE <<face, modifier>>

\* moves.join(' ')
RECURSIVE Join(_)
Join(list) ==
    IF list = <<>> THEN <<>>
    ELSE IF Len(list) = 1 THEN list[1]
    ELSE list[1] \o <<" ">> \o Join(Tail(list))

\* generateScramble(n) is called after the previous call has returned: the
\* locals before the loop
CallGenerate(n) ==
    /\ generated.returned
    /\ length' = n
    /\ loopIndex' = 0
    /\ moves' = <<>>
    /\ lastFace' = ""
    /\ secondLastFace' = ""
    /\ generated' = [returned |-> FALSE, text |-> <<>>]
    /\ UNCHANGED outsideScramble

\* one pass of the for loop: the do-while ends with a face it does not
\* draw again, then the modifier is drawn and the move pushed
Iterate ==
    /\ ~generated.returned
    /\ loopIndex < length
    /\ \E f \in 1..Len(FACES), m \in 1..Len(MODIFIERS) :
          /\ ~Redraw(FACES[f])
          /\ moves' = Append(moves, Token(FACES[f], MODIFIERS[m]))
          /\ secondLastFace' = lastFace
          /\ lastFace' = FACES[f]
    /\ loopIndex' = loopIndex + 1
    /\ UNCHANGED <<length, generated, outsideScramble>>

\* the loop is over: return moves.join(' ')
Return ==
    /\ ~generated.returned
    /\ loopIndex >= length
    /\ generated' = [returned |-> TRUE, text |-> Join(moves)]
    /\ UNCHANGED <<length, loopIndex, moves, lastFace, secondLastFace,
                   outsideScramble>>

\* ------------------------------------------------------ timeFormat
\* list.slice(first, end) for first >= 0; a negative end counts from the end
Slice(list, first, end) ==
    LET len == Len(list)
        from == IF first > len THEN len ELSE first
        to == IF end < 0 THEN (IF len + end < 0 THEN 0 ELSE len + end)
              ELSE IF end > len THEN len ELSE end
    IN  SubSeq(list, from + 1, to)

\* where sort((a, b) => a - b) puts a value in a sorted list
RECURSIVE InsertSorted(_, _)
InsertSorted(v, sorted) ==
    IF sorted = <<>> THEN <<v>>
    ELSE IF v < Head(sorted) THEN <<v>> \o sorted
    ELSE <<Head(sorted)>> \o InsertSorted(v, Tail(sorted))

\* [...list].sort((a, b) => a - b)
RECURSIVE SortAscending(_)
SortAscending(list) ==
    IF list = <<>> THEN <<>>
    ELSE InsertSorted(Head(list), SortAscending(Tail(list)))

\* list.reduce((a, b) => a + b, 0)
RECURSIVE Sum(_)
Sum(list) == IF list = <<>> THEN 0 ELSE Head(list) + Sum(Tail(list))

calcAverageUnsorted(list) ==
    IF Len(list) < 3 THEN Null
    ELSE LET trimmed == Slice(list, 1, -1)
         IN  Number(Sum(trimmed), Len(trimmed))

\* calcAverage(times)
calcAverage(list) ==
    IF Len(list) < 3 THEN Null
    ELSE LET sorted == SortAscending(list)
             trimmed == Slice(sorted, 1, -1)
         IN  Number(Sum(trimmed), Len(trimmed))

calcAoNAll(list, n) ==
    IF Len(list) < n THEN Null ELSE calcAverage(list)

\* calcAoN(times, n)
calcAoN(list, n) ==
    IF Len(list) < n THEN Null ELSE calcAverage(Slice(list, 0, n))

\* a solve is recorded: its duration heads the list the statistics read
AddTime(v) ==
    /\ Len(times) < MaxTimes
    /\ times' = <<v>> \o times
    /\ statistic' = [fn |-> "none", n |-> 0, value |-> Null]
    /\ UNCHANGED outsideStats

\* calcAverage(times) is evaluated
CallAverage ==
    /\ statistic' = [fn |-> "calcAverage", n |-> 0, value |-> calcAverage(times)]
    /\ UNCHANGED <<times, outsideStats>>

\* calcAoN(times, n) is evaluated
CallAoN(n) ==
    /\ statistic' = [fn |-> "calcAoN", n |-> n, value |-> calcAoN(times, n)]
    /\ UNCHANGED <<times, outsideStats>>

\* ------------------------------------------------------ page loads
\* the page is loaded: useState(loadRecords)
LoadRecords ==
    /\ loaded' = [called |-> TRUE, from |-> storage, value |-> loadRecords]
    /\ UNCHANGED outsideLoad

\* between two loads the item under STORAGE_KEY becomes raw
SetItem(raw) ==
    /\ storage' = raw
    /\ UNCHANGED <<loaded, now, timerVars, mode, records, scramble,
                   showPermissionBanner, showHelp, holdVars, sensorLockedRef,
                   sensorVars, hist, pickupVars, scrambleVars, statVars,
                   lifecycleVars>>

\* switchMode(newMode), the mode toggle buttons
SwitchMode(newMode) ==
    /\ mode' = newMode
    /\ reset
    /\ sensorLockedRef' = FALSE
    /\ clearReadyTimer
    /\ showPermissionBanner' =
           (newMode = "sensor" /\ sensorAvailable /\ permissionGranted # "true")
    /\ UNCHANGED <<now, auxVars, records, storage, scramble, showHelp, sensorVars>>
    /\ Observe("switch")

\* the permission banner's button: handleRequestPermission up to its await;
\* without a request API requestPermission() grants at once
HandleRequestPermission ==
    /\ showPermissionBanner
    /\ IF hasRequestApi THEN
           /\ ~requests
           /\ requests' = TRUE
           /\ UNCHANGED <<permissionGranted, showPermissionBanner>>
       ELSE
           /\ permissionGranted' = "true"
           /\ showPermissionBanner' = FALSE
           /\ UNCHANGED requests
    /\ UNCHANGED <<now, auxVars, timerVars, mode, records, storage, scramble, showHelp,
                   holdVars, sensorLockedRef, filterVars, sensorAvailable,
                   hasRequestApi>>
    /\ Observe("request")

\* the platform settles the request ("granted", "denied" or "throw") and
\* handleRequestPermission resumes after its await
ResolvePermission(result) ==
    /\ requests
    /\ requests' = FALSE
    /\ permissionGranted' = IF result = "granted" THEN "true" ELSE "false"
    /\ showPermissionBanner' = FALSE
    /\ mode' = IF result = "granted" THEN mode ELSE "stackmat"
    /\ UNCHANGED <<now, auxVars, timerVars, records, storage, scramble, showHelp,
                   holdVars, sensorLockedRef, filterVars, sensorAvailable,
                   hasRequestApi>>
    /\ Observe("resolve:" \o result)

\* refreshScramble, the button under the scramble
RefreshScramble ==
    /\ \E g \in Scrambles : scramble' = g
    /\ UNCHANGED <<now, auxVars, timerVars, mode, records, storage, showPermissionBanner,
                   showHelp, holdVars, sensorLockedRef, sensorVars>>
    /\ Observe("refresh")

\* what deleteRecord(id) leaves of a list
WithoutId(list, id) == SelectSeq(list, LAMBDA r : r.id # id)

\* deleteRecord(id), the button of a history row
DeleteRecord(id) ==
    /\ \E i \in 1..Len(records) : records[i].id = id
    /\ records' = WithoutId(records, id)
    /\ saveRecords(records')
    /\ UNCHANGED <<now, auxVars, timerVars, mode, scramble, showPermissionBanner, showHelp,
                   holdVars, sensorLockedRef, sensorVars>>
    /\ Observe(IF records[1].id = id THEN "delete:head" ELSE "delete")

\* the "delete this solve" button of the stopped phase: deleteRecord of the
\* head of the list, then nextRound()
DeleteThis ==
    /\ phase = "stopped"
    /\ records' = IF Len(records) > 0 THEN WithoutId(records, records[1].id)
                  ELSE records
    /\ IF Len(records) > 0 THEN saveRecords(records') ELSE UNCHANGED storage
    /\ \E g \in Scrambles : scramble' = g
    /\ reset
    /\ sensorLockedRef' = FALSE
    /\ UNCHANGED <<now, auxVars, mode, showPermissionBanner, showHelp, holdVars, sensorVars>>
    /\ Observe("deletethis")

\* clearRecords, the button of the history header
ClearRecords ==
    /\ Len(records) > 0
    /\ records' = <<>>
    /\ saveRecords(<<>>)
    /\ reset
    /\ sensorLockedRef' = FALSE
    /\ UNCHANGED <<now, auxVars, mode, scramble, showPermissionBanner, showHelp, holdVars,
                   sensorVars>>
    /\ Observe("clear")

\* dismissHelp
DismissHelp ==
    /\ showHelp
    /\ showHelp' = FALSE
    /\ UNCHANGED <<now, auxVars, timerVars, mode, records, storage, scramble,
                   showPermissionBanner, holdVars, sensorLockedRef, sensorVars>>
    /\ Observe("help")

\* the "?" button of the header
OpenHelp ==
    /\ ~showHelp
    /\ showHelp' = TRUE
    /\ UNCHANGED <<now, auxVars, timerVars, mode, records, storage, scramble,
                   showPermissionBanner, holdVars, sensorLockedRef, sensorVars>>
    /\ Observe("help")

\* time passes; a hold-delay timer fires when it is due
Advance(d, until) ==
    /\ now + d <= until
    /\ timers # <<>> => now + d <= Head(timers)
    /\ stillTimerDue # NoTimer => now + d <= stillTimerDue
    /\ now' = now + d
    /\ UNCHANGED <<auxVars, timerVars, appVars, holdVars, sensorLockedRef, sensorVars>>
    /\ Observe("advance")

\* ---------------------------------------------------- specifications
\* The session in the mode the page was loaded in: every handler of App and
\* useTimer except the mode toggle and the permission request; no motion
\* samples arrive (in sensor mode handleImpact runs from the keyboard).
InitManual ==
    /\ Init
    /\ storage = MissingItem
    /\ sensorAvailable
    /\ hasRequestApi
    /\ ~showHelp

Next ==
    \/ \E d \in SessionSteps : Advance(d, MaxTime)
    \/ Tick
    \/ ReadyTimerFire
    \/ HandleTouchStart
    \/ HandleTouchEnd
    \/ HandleKeyDown
    \/ HandleKeyUp
    \/ NextRound
    \/ CancelSolve
    \/ RefreshScramble
    \/ \E i \in 1..Len(records) : DeleteRecord(records[i].id)
    \/ DeleteThis
    \/ ClearRecords

Spec == InitManual /\ [][Next]_vars

\* The keyboard and the touch zone with the help dialog, which mutes the
\* keyboard while it is open.
InitHelp ==
    /\ Init
    /\ storage = MissingItem
    /\ sensorAvailable
    /\ hasRequestApi

NextHelp ==
    \/ \E d \in SessionSteps : Advance(d, MaxTime)
    \/ ReadyTimerFire
    \/ HandleTouchStart
    \/ HandleTouchEnd
    \/ HandleKeyDown
    \/ HandleKeyUp
    \/ NextRound
    \/ DismissHelp
    \/ OpenHelp

SpecHelp == InitHelp /\ [][NextHelp]_vars

\* The sensor session: the page is loaded in sensor mode with the help closed;
\* motion samples, Space as a simulated impact (the keyboard is used in sensor
\* mode only, so that no hold-delay timer is armed), the permission request,
\* the mode toggle and the round buttons.
InitSensor ==
    /\ Init
    /\ storage = MissingItem
    /\ mode = "sensor"
    /\ sensorAvailable
    /\ ~showHelp

NextSensor ==
    \/ \E d \in SensorSteps : Advance(d, MaxSensorTime)
    \/ \E s \in SensorSamples : HandleMotion(s)
    \/ mode = "sensor" /\ HandleKeyDown
    \/ NextRound
    \/ CancelSolve
    \/ \E m \in Modes : SwitchMode(m)
    \/ HandleRequestPermission
    \/ \E r \in {"granted", "denied", "throw"} : ResolvePermission(r)
    \/ DeleteThis
    \/ ClearRecords

SpecSensor == InitSensor /\ [][NextSensor]_vars

\* The rounds of the sensor session with the permission left alone: motion
\* samples, Space as a simulated impact, the mode toggle and the round
\* buttons.
InitRounds == InitSensor /\ hasRequestApi

NextRounds ==
    \/ \E d \in SensorSteps : Advance(d, MaxSensorTime)
    \/ \E s \in SensorSamples : HandleMotion(s)
    \/ mode = "sensor" /\ HandleKeyDown
    \/ NextRound
    \/ CancelSolve
    \/ \E m \in Modes : SwitchMode(m)
    \/ DeleteThis
    \/ ClearRecords

SpecRounds == InitRounds /\ [][NextRounds]_vars

\* The motion filter on a fine clock: samples, the mode toggle that enables
\* and disables the filter, and the buttons that end a round.
NextFilter ==
    \/ \E d \in FilterSteps : Advance(d, MaxFilterTime)
    \/ \E s \in FilterSamples : HandleMotion(s)
    \/ NextRound
    \/ CancelSolve
    \/ \E m \in Modes : SwitchMode(m)

InitFilter ==
    /\ InitSensor
    /\ hasRequestApi

SpecFilter == InitFilter /\ [][NextFilter]_vars

\* The pickup/putdown filter on a 100 ms clock: samples, the stillness timer,
\* resetSensor and the enabled flag.
InitPickup ==
    /\ InitSensor
    /\ hasRequestApi

NextPickup ==
    \/ \E d \in PickupSteps : Advance(d, MaxPickupTime)
    \/ \E s \in SensorSamples : HandleMotionPickup(s)
    \/ StillTimerFire
    \/ ResetSensor
    \/ \E e \in BOOLEAN : SetEnabled(e)

SpecPickup == InitPickup /\ [][NextPickup]_vars

\* The life of the listener: the component is unmounted and mounted again,
\* the mode is toggled, samples arrive while a listener is registered.
NextListener ==
    \/ \E d \in FilterSteps : Advance(d, MaxFilterTime)
    \/ \E s \in SensorSamples : HandleMotion(s)
    \/ \E m \in Modes : mounted /\ SwitchMode(m)
    \/ EffectCleanup
    \/ EffectSetup

SpecListener == InitManual /\ [][NextListener]_vars

\* Both filters fed the same stream of samples.
NextSamples ==
    \/ \E d \in PickupSteps : Advance(d, MaxPickupTime)
    \/ \E s \in Samples : HandleMotion(s)
    \/ \E s \in Samples : HandleMotionPickup(s)
    \/ StillTimerFire

SpecSamples == InitPickup /\ [][NextSamples]_vars

\* the session at rest while a pure function is exercised
InitIdle == InitManual /\ mode = "stackmat"

\* Calls of generateScramble, one after the other, with every outcome of the
\* random draws.
NextScramble ==
    \/ \E n \in 0..MaxLength : CallGenerate(n)
    \/ Iterate
    \/ Return

SpecScramble == InitIdle /\ [][NextScramble]_vars

\* The statistics evaluated over every list of durations.
NextStats ==
    \/ \E v \in TimeValues : AddTime(v)
    \/ CallAverage
    \/ \E n \in 0..MaxN : CallAoN(n)

SpecStats == InitIdle /\ [][NextStats]_vars

\* Page loads over every content of the storage key.
NextLoad ==
    \/ \E raw \in RawItems : SetItem(raw)
    \/ LoadRecords

SpecLoad == InitIdle /\ [][NextLoad]_vars

\* The record list and the storage key, from a page that rendered over any
\* content of the key: solves by the Space key in sensor mode, the next-round
\* buttons, and the delete and clear buttons of the history.
InitStore ==
    /\ Init
    /\ mode = "sensor"
    /\ sensorAvailable
    /\ hasRequestApi
    /\ ~showHelp

NextStore ==
    \/ \E d \in SensorSteps : Advance(d, MaxSensorTime)
    \/ HandleKeyDown
    \/ NextRound
    \/ CancelSolve
    \/ \E i \in 1..Len(records) : DeleteRecord(records[i].id)
    \/ DeleteThis
    \/ ClearRecords

SpecStore == InitStore /\ [][NextStore]_vars

\* ------------------------------------------------------- properties
\* the edges of the phase machine the specification defines
DefinedEdges ==
    {<<"idle", "ready">>, <<"idle", "running">>, <<"ready", "running">>,
     <<"running", "stopped">>, <<"running", "idle">>, <<"stopped", "idle">>,
     <<"ready", "idle">>}

\* C1: the phase changes only along the defined edges; in particular never
\* from running to ready, from stopped to ready or from stopped to running
C1_OnlyDefinedEdges ==
    [][phase' # phase => <<phase, phase'>> \in DefinedEdges]_vars

\* C4: a step that changes the input mode while the phase is ready, running
\* or stopped leaves the phase idle, the clock stopped (display at 0, frame
\* callback cancelled) and the record list as it was
C4_ModeChangeResets ==
    [][mode' # mode /\ phase \in {"ready", "running", "stopped"}
          => /\ phase' = "idle"
             /\ time' = 0
             /\ ~rafRef'
             /\ records' = records]_vars

\* the step is the devicemotion listener handling some sample
MotionStep == \E s \in SensorSamples : HandleMotion(s)

\* the step leaves the phase, the clock and the record list as they were
SessionUnchanged == UNCHANGED <<phase, time, startTimeRef, records>>

C5_EarlyReleaseCancels ==
    [][(HandleTouchEnd \/ HandleKeyUp) /\ mode = "stackmat" /\ phase = "idle"
          => timers' = <<>>]_vars

\* C8: from idle in manual mode the round press, hold until the hold delay
\* has elapsed, release, tap at a later reading of the clock, next round takes
\* the phase through ready, running, stopped and back to idle, and adds
\* exactly one record, whose duration is positive
C8_FullCycle ==
    /\ hist.cycle = 1 => phase \in {"idle", "ready"} /\ Len(records) = hist.base
    /\ hist.cycle = 2 => phase = "ready" /\ Len(records) = hist.base
    /\ hist.cycle = 3 => phase = "running" /\ Len(records) = hist.base
    /\ hist.cycle = 4 =>
           /\ phase = "stopped"
           /\ Len(records) = hist.base + 1
           /\ records[1].time > 0
    /\ hist.cycle = 5 =>
           /\ phase = "idle"
           /\ Len(records) = hist.base + 1
           /\ records[1].time > 0

\* the whole round has been played
C8_Witness ==
    /\ hist.cycle = 5
    /\ phase = "idle"
    /\ Len(records) = hist.base + 1

\* a press in manual mode: pointerdown in the touch zone, or Space
ManualPressStep == HandleTouchStart \/ (HandleKeyDown /\ mode = "stackmat")

\* the step is a Space press that the open help dialog mutes
MutedByHelp == showHelp /\ HandleKeyDown

\* the step stops the clock and records the solve
StopsAndRecords ==
    /\ phase' = "stopped"
    /\ time' = now - startTimeRef
    /\ Len(records') = Len(records) + 1
    /\ records'[1].time = now - startTimeRef

\* the step changes nothing of the program
NoEffect ==
    UNCHANGED <<now, auxVars, timerVars, appVars, holdVars, sensorLockedRef,
                sensorVars>>

C2_RecordIffRecordingStop ==
    [][(Len(records') > Len(records)
           <=> (phase = "running" /\ phase' = "stopped"))
       /\ (Len(records') > Len(records)
           => (Len(records') = Len(records) + 1 /\ Tail(records') = records))
      ]_vars

\* a manual tap has just stopped the clock and the record of it is in the list
C2_Witness ==
    /\ hist.last = "press:stop"
    /\ phase = "stopped"
    /\ Len(records) = 1
    /\ records[1].time = now - startTimeRef

\* C3: the scramble of a record that is created is the scramble that was on
\* display when the clock of that solve started
C3_RecordHasStartScramble ==
    [][Len(records') > Len(records)
          => records'[1].scramble = hist.startScramble]_vars

\* the filter called onImpact in the step
ImpactEmitted == hist'.last \in {"motion:start", "motion:stop", "motion:none"}

\* C9, as the specification states it: an enabled sample with its three axes
\* present emits an impact event exactly when its deviation exceeds the
\* threshold and at least cooldownMs has elapsed since the last accepted event
C9_EmitsAtCooldown ==
    [][\A s \in FilterSamples :
          HandleMotion(s) /\ mode = "sensor" /\ ValidSample(s)
              => (ImpactEmitted <=>
                     /\ Deviation(s) > ImpactThreshold
                     /\ now - lastImpactTimeRef >= CooldownMs)]_vars

\* C9, as the code has it: an enabled sample with its three axes present emits
\* an impact event exactly when its deviation exceeds the threshold and
\* strictly more than cooldownMs has elapsed since the last accepted event
C9_EmitsAfterCooldown ==
    [][\A s \in FilterSamples :
          HandleMotion(s) /\ mode = "sensor" /\ ValidSample(s)
              => (ImpactEmitted <=>
                     /\ Deviation(s) > ImpactThreshold
                     /\ now - lastImpactTimeRef > CooldownMs)]_vars

\* an above-threshold sample has just been dropped exactly cooldownMs after the
\* last accepted event
C9_Witness ==
    /\ hist.last = "motion:cooldown"
    /\ now - lastImpactTimeRef = CooldownMs

\* C10: an above-threshold sample that arrives inside the cooldown window of
\* the last accepted event emits nothing and leaves the last accepted time and
\* the last strength (and with them the window) as they were, and the session
\* too; so of two above-threshold samples 50 ms apart the second emits nothing
C10_DroppedInsideCooldown ==
    [][\A s \in FilterSamples :
          /\ HandleMotion(s) /\ mode = "sensor" /\ ValidSample(s)
          /\ Deviation(s) > ImpactThreshold
          /\ now - lastImpactTimeRef < CooldownMs
          => /\ ~ImpactEmitted
             /\ UNCHANGED <<lastImpactTimeRef, lastImpactStrength>>
             /\ UNCHANGED <<phase, records, startTimeRef>>]_vars

\* the second of two above-threshold samples 50 ms apart has just been dropped
C10_Witness ==
    /\ hist.last = "motion:cooldown"
    /\ now - lastImpactTimeRef = 50
    /\ lastImpactStrength > 0

\* C11: under the pickup/putdown policy, while moving, a sample at or below
\* the threshold arms a stillness timer of stillDuration when none is pending
\* and leaves a pending one alone; an above-threshold sample cancels the
\* pending timer; no sample emits putdown; and when the timer fires, moving
\* becomes false and putdown is emitted, by that step only
C11_StillnessTimer ==
    [][/\ \A s \in SensorSamples :
             HandleMotionPickup(s) /\ enabledRef /\ ValidSample(s)
                 => /\ (/\ isMovingRef /\ Deviation(s) <= MotionThreshold
                         /\ stillTimerDue = NoTimer)
                        => stillTimerDue' = now + StillDurationMs
                    /\ (/\ isMovingRef /\ Deviation(s) <= MotionThreshold
                         /\ stillTimerDue # NoTimer)
                        => stillTimerDue' = stillTimerDue
                    /\ Deviation(s) > MotionThreshold
                        => stillTimerDue' = NoTimer
                    /\ sensorEvent'.emitted # "putdown"
       /\ StillTimerFire
             => (~isMovingRef' /\ sensorEvent'.emitted = "putdown")
       /\ (sensorEvent' # sensorEvent /\ sensorEvent'.emitted = "putdown")
             => StillTimerFire
      ]_vars

\* the stillness timer has just fired, stillDuration after the last motion
C11_Witness ==
    /\ sensorEvent.emitted = "putdown"
    /\ ~isMovingRef
    /\ stillTimerDue = NoTimer
    /\ lastMotionRef > 0
    /\ now - lastMotionRef >= StillDurationMs

\* the sample lacks the acceleration object or one of its components
MissingData(s) == ~s.acc \/ s.x = <<>> \/ s.y = <<>> \/ s.z = <<>>

\* C12: a sample whose acceleration object is missing or which has a null
\* x, y or z is skipped by both filters: no event is emitted and the moving
\* flag, the stillness timer, the last accepted time and the last strength
\* (and the session) stay as they were
C12_InvalidSampleSkipped ==
    [][\A s \in Samples :
          MissingData(s)
              => /\ HandleMotion(s)
                     => /\ ~ImpactEmitted
                        /\ UNCHANGED <<lastImpactTimeRef, lastImpactStrength>>
                        /\ UNCHANGED <<phase, records, startTimeRef>>
                 /\ HandleMotionPickup(s)
                     => /\ sensorEvent'.emitted = "none"
                        /\ UNCHANGED <<isMovingRef, lastMotionRef, stillTimerRef,
                                       stillTimerDue>>]_vars

\* the impact filter has just skipped an invalid sample while both filters
\* had state to lose
C12_Witness ==
    /\ hist.last = "motion:invalid"
    /\ mode = "sensor"
    /\ lastImpactTimeRef > 0
    /\ isMovingRef
    /\ stillTimerDue # NoTimer

\* C13: a request that resolves to denied or throws puts the session in
\* manual mode, and while permission is denied no motion sample yields an
\* event for the session or changes the phase
C13_DeniedFilterOff ==
    [][/\ (requests /\ ~requests' /\ permissionGranted' = "false")
            => mode' = "stackmat"
       /\ \A s \in SensorSamples :
            (permissionGranted = "false" /\ HandleMotion(s))
                => (~ImpactEmitted /\ phase' = phase)]_vars

\* C14: where the platform has no permission-request API the filter reports
\* the permission as granted in every state, from the first one on
C14_GrantedWithoutApi ==
    ~hasRequestApi => permissionGranted = "true"

\* the space-separated tokens of a text, none for the empty text
RECURSIVE Split(_, _, _)
Split(text, done, current) ==
    IF text = <<>> THEN
        IF current = <<>> /\ done = <<>> THEN <<>> ELSE Append(done, current)
    ELSE IF Head(text) = " " THEN Split(Tail(text), Append(done, current), <<>>)
    ELSE Split(Tail(text), done, Append(current, Head(text)))

Tokens(text) == Split(text, <<>>, <<>>)

FaceLetters == {"U", "D", "L", "R", "F", "B"}

\* C15: no returned scramble has three consecutive tokens with the faces
\* X, opposite(X), X
C15_NoSameAxisTriple ==
    generated.returned
        => LET t == Tokens(generated.text)
           IN  \A k \in 1..(Len(t) - 2) :
                   ~(/\ t[k + 1] # <<>> /\ t[k] # <<>> /\ t[k + 2] # <<>>
                     /\ t[k + 1][1] = OPPOSITE(t[k][1])
                     /\ t[k + 2][1] = t[k][1])

\* C16: generateScramble(n) returns exactly n tokens joined by single
\* spaces, each a face letter with an optional ' or 2, and adjacent tokens
\* have different face letters
C16_WellFormedScramble ==
    generated.returned
        => LET t == Tokens(generated.text)
           IN  /\ Len(t) = length
               /\ \A k \in 1..Len(t) :
                      /\ Len(t[k]) \in {1, 2}
                      /\ t[k][1] \in FaceLetters
                      /\ Len(t[k]) = 2 => t[k][2] \in {"'", "2"}
               /\ \A k \in 1..(Len(t) - 1) : t[k][1] # t[k + 1][1]

\* a call for the longest scramble has returned, with a suffixed token
C16_Witness ==
    /\ generated.returned
    /\ length = 3
    /\ Len(moves) = 3
    /\ Len(generated.text) = 7

\* the smallest and the largest value of a non-empty list
Least(list) ==
    CHOOSE v \in {list[k] : k \in 1..Len(list)} :
        \A k \in 1..Len(list) : v <= list[k]

Greatest(list) ==
    CHOOSE v \in {list[k] : k \in 1..Len(list)} :
        \A k \in 1..Len(list) : v >= list[k]

\* value is the mean of the list without one instance of its least and one
\* instance of its greatest value
IsTrimmedMean(value, list) ==
    /\ ~value.null
    /\ value.count > 0
    /\ value.sum * (Len(list) - 2)
           = (Sum(list) - Least(list) - Greatest(list)) * value.count

\* C17: calcAverage returns null for fewer than 3 durations and otherwise
\* the mean of the list without exactly one instance of the minimum and one
\* of the maximum, duplicated extremes included: [10, 10, 10] gives 10
C17_TrimmedAverage ==
    statistic.fn = "calcAverage"
        => /\ Len(times) < 3 => statistic.value = Null
           /\ Len(times) >= 3 => IsTrimmedMean(statistic.value, times)
           /\ times = <<10, 10, 10>>
                  => statistic.value.sum = 10 * statistic.value.count

\* the average of [10, 10, 10] has been computed
C17_Witness ==
    /\ statistic.fn = "calcAverage"
    /\ times = <<10, 10, 10>>
    /\ statistic.value = Number(10, 1)

\* C18: calcAoN(times, n) returns null when times has fewer than n entries
\* and otherwise the trimmed average of the first n entries alone;
\* [12000, 11000, 13000, 9000, 15000] with n = 5 gives 12000
C18_AverageOfN ==
    statistic.fn = "calcAoN"
        => LET n == statistic.n
               recent == SubSeq(times, 1, n)
           IN  /\ Len(times) < n => statistic.value = Null
               /\ (Len(times) >= n /\ n < 3) => statistic.value = Null
               /\ (Len(times) >= n /\ n >= 3)
                      => IsTrimmedMean(statistic.value, recent)
               /\ (times = <<12000, 11000, 13000, 9000, 15000>> /\ n = 5)
                      => statistic.value.sum = 12000 * statistic.value.count

\* the Ao5 of the example list has been computed, and an Ao3 that ignores
\* older entries
C18_Witness ==
    /\ statistic.fn = "calcAoN"
    /\ statistic.n = 5
    /\ times = <<12000, 11000, 13000, 9000, 15000>>
    /\ statistic.value = Number(36000, 3)

\* C19: loadRecords returns a list in every case: the empty list when the
\* key is missing, the string does not parse or the data is not a
\* serialized list of records, and the stored list when it is well formed
C19_LoadReturnsList ==
    loaded.called
        => /\ loaded.value.type = "array"
           /\ loaded.value.items =
                  IF loaded.from.kind = "string" /\ loaded.from.text = "[records]"
                  THEN loaded.from.list ELSE <<>>

\* C20: the ids of the records are pairwise distinct and a record created
\* later (nearer the head of the list) has the larger id, so that deleting by
\* id removes exactly one record and keeps the others
C20_UniqueMonotonicIds ==
    /\ [](\A i, j \in 1..Len(records) : i < j => records[i].id > records[j].id)
    /\ [][\A k \in 1..Len(records) :
             DeleteRecord(records[k].id)
                 => records' = RemoveAt(records, k)]_vars

\* small is big with some of its elements left out, the others in order
RECURSIVE IsSubSeq(_, _)
IsSubSeq(small, big) ==
    IF small = <<>> THEN TRUE
    ELSE IF big = <<>> THEN FALSE
    ELSE IF Head(small) = Head(big) THEN IsSubSeq(Tail(small), Tail(big))
    ELSE IsSubSeq(small, Tail(big))

\* C21: the record list is most recent first in every state: a step that
\* adds a record puts the record of the present instant at the head and
\* keeps the rest, and a step that removes records keeps the others in
\* their order
C21_MostRecentFirst ==
    /\ [](\A i, j \in 1..Len(records) :
              i < j => records[i].date >= records[j].date)
    /\ [][/\ (Len(records') > Len(records))
              => (Tail(records') = records /\ records'[1].date = now)
          /\ (Len(records') < Len(records)) => IsSubSeq(records', records)
          /\ (Len(records') = Len(records)) => (records' = records)]_vars

\* the newer of two records has been deleted from the history in the stopped
\* phase its stop entered; the older one is what is left
C21_Witness ==
    /\ phase = "stopped"
    /\ Len(records) = 1
    /\ records[1].date < startTimeRef

\* C22: outside the running phase no frame callback is pending, and in the
\* running phase at most one chain of frame callbacks is
C22_FrameLoopOnlyWhileRunning ==
    /\ phase # "running" => rafPending = 0
    /\ phase = "running" => rafPending <= 1

\* C23: the duration a stop returns, shows and stores is the reading of the
\* clock at the stop minus its reading when the clock was started; it is not
\* negative, and a frame callback changes neither the reference nor the list
C23_DurationFromClock ==
    [][/\ (Len(records') > Len(records))
           => /\ records'[1].time = now - hist.startedAt
              /\ records'[1].time >= 0
              /\ time' = records'[1].time
       /\ Tick => UNCHANGED <<startTimeRef, records, phase>>]_vars

\* a solve of 400 ms has been stopped and recorded
C23_Witness ==
    /\ phase = "stopped"
    /\ Len(records) > 0
    /\ records[1].time = 400
    /\ time = 400
    /\ hist.startedAt = now - 400

\* C24: an explicit reset, by the mode toggle or by clear-all, leaves the
\* phase idle, the display at 0, no frame callback and no hold-delay timer
\* pending, whatever the phase it is issued in
C24_ResetDiscardsTimers ==
    [][(ClearRecords \/ \E m \in Modes : SwitchMode(m))
          => /\ phase' = "idle"
             /\ time' = 0
             /\ rafPending' = 0
             /\ timers' = <<>>]_vars

\* the actions by which the user leaves the stopped phase
LeavesStopped ==
    \/ NextRound
    \/ DeleteThis
    \/ ClearRecords
    \/ \E m \in Modes : SwitchMode(m)

\* C25: a recording stop keeps the scramble on display and enters stopped;
\* the phase then stays stopped until the user acts; the next-round action
\* sets the phase idle and the display to 0, puts a generated scramble on
\* display and releases the post-stop lock, and keeps record list and mode
C25_NextRoundDeferred ==
    [][/\ (Len(records') > Len(records))
           => (scramble' = scramble /\ phase' = "stopped")
       /\ (phase = "stopped" /\ phase' # "stopped") => LeavesStopped
       /\ NextRound
           => /\ phase' = "idle"
              /\ time' = 0
              /\ scramble' \in Scrambles
              /\ ~sensorLockedRef'
              /\ UNCHANGED <<records, mode>>]_vars

\* C26: at most one devicemotion listener is registered, one is registered
\* while the component is mounted in sensor mode, and none is while sensor
\* mode is disabled or after the component is torn down
C26_ListenerScoped ==
    /\ listeners <= 1
    /\ (mounted /\ mode = "sensor" /\ sensorAvailable) => listeners = 1
    /\ mode # "sensor" => listeners = 0
    /\ ~mounted => listeners = 0

\* C27: under the pickup/putdown policy a sample the enabled filter handles
\* emits pickup exactly when it is above the threshold while moving is false,
\* and then moving becomes true; an above-threshold sample while moving is
\* true emits nothing; since the last resetSensor call the events alternate
\* pickup, putdown, pickup, ... starting with pickup; and putdown is never
\* emitted while moving is false
C27_PickupPutdownAlternate ==
    [][/\ \A s \in SensorSamples :
              (HandleMotionPickup(s) /\ enabledRef /\ ValidSample(s))
                  => /\ (sensorEvent'.emitted = "pickup")
                            <=> (Deviation(s) > MotionThreshold /\ ~isMovingRef)
                     /\ (sensorEvent'.emitted = "pickup") => isMovingRef'
                     /\ (Deviation(s) > MotionThreshold /\ isMovingRef)
                            => (sensorEvent'.emitted = "none" /\ isMovingRef')
       /\ (sensorEvent'.count = sensorEvent.count + 1)
              => /\ sensorEvent'.last = sensorEvent'.emitted
                 /\ (sensorEvent'.last = "pickup")
                        <=> (sensorEvent.last \in {"none", "putdown"})
                 /\ (sensorEvent'.last = "putdown")
                        <=> (sensorEvent.last = "pickup")
                 /\ (sensorEvent'.last = "putdown") => isMovingRef
                 /\ (sensorEvent.count = 0) => (sensorEvent'.last = "pickup")
       /\ (sensorEvent'.count # sensorEvent.count + 1)
              => (sensorEvent'.emitted = "none"
                  \/ UNCHANGED sensorEvent)]_vars

\* a second pickup, after a pickup and a putdown
C27_Witness ==
    /\ sensorEvent = [emitted |-> "pickup", last |-> "pickup", count |-> 3]
    /\ isMovingRef
    /\ lastMotionRef = now

\* C28: lastImpactStrength is 0 while no impact has been accepted, and
\* otherwise the deviation, rounded to one decimal, of the most recent
\* accepted impact: an accepted sample sets it to its rounded deviation, a
\* sample that is below the threshold, inside the cooldown window, invalid or
\* received while disabled leaves it alone, and so does every other step
C28_LastImpactStrength ==
    /\ [](lastImpactTimeRef = 0 => lastImpactStrength = 0)
    /\ [][/\ \A s \in FilterSamples :
                 HandleMotion(s)
                      => IF /\ mode = "sensor"
                            /\ ValidSample(s)
                            /\ Deviation(s) > ImpactThreshold
                            /\ now - lastImpactTimeRef > CooldownMs
                         THEN /\ lastImpactTimeRef' = now
                              /\ 100 * lastImpactStrength' - Deviation(s)
                                     \in -49..50
                         ELSE UNCHANGED <<lastImpactStrength, lastImpactTimeRef>>
          /\ (lastImpactStrength' # lastImpactStrength)
                 => \E s \in FilterSamples : HandleMotion(s)]_vars

\* an accepted impact had a deviation of 2.569 m/s^2, shown as 2.6, and a
\* later knock inside its cooldown window has left it
C28_Witness ==
    /\ lastImpactStrength = 26
    /\ lastImpactTimeRef > InitialTime
    /\ hist.last = "motion:cooldown"

\* C29: at most one hold-delay timer is pending at any time and readyTimerRef
\* refers to it, so that no timer the ref has let go of can fire setReady; and
\* setReady never fires while the phase is running or stopped
C29_SingleHoldTimer ==
    /\ [](Len(timers) <= 1 /\ (timers # <<>> => readyTimerRef = 1))
    /\ [][ReadyTimerFire => (phase \notin {"running", "stopped"})]_vars

\* C30: the "delete this solve" action of the stopped phase removes exactly
\* the record the stop that entered this stopped phase created, and no other
\* record, whichever rows of the history were deleted while stopped; and it
\* advances to the next round
C30_DeleteThisSolve ==
    [][DeleteThis
          => /\ records' = IF hist.headIsSolve THEN Tail(records) ELSE records
             /\ storage' = IF hist.headIsSolve THEN Stringify(records') ELSE storage
             /\ phase' = "idle" /\ time' = 0
             /\ scramble' \in Scrambles
             /\ ~sensorLockedRef']_vars

\* C31: after every operation that changes the record list (a recording stop,
\* the deletion of one record, clear-all) the list stored under the storage
\* key is the record list in memory; and in every reachable state after the
\* initial load the two agree, that is, loading the key again would return
\* the list in memory
C31_StorageFollowsRecords ==
    /\ [](loadRecords = Array(records))
    /\ [][(records' # records)
              => /\ storage'.kind = "string"
                 /\ ~JSONParse(storage').threw
                 /\ JSONParse(storage').value = Array(records')]_vars

\* a solve has been recorded on top of a record found in storage at load, and
\* the key holds both
C31_Witness ==
    /\ phase = "stopped"
    /\ hist.headIsSolve
    /\ Len(records) = 2
    /\ records[1].date = now
    /\ records[2].time = 400
    /\ storage.kind = "string"
    /\ JSONParse(storage).value = Array(records)

====
